---- MODULE Spec2Model ----
(***************************************************************************)
(* Health-check and readiness endpoints of the proxy                        *)
(* (litellm/proxy/health_endpoints/_health_endpoints.py), the credential   *)
(* endpoints (litellm/proxy/credential_endpoints/endpoints.py) and the MCP *)
(* server management endpoints                                             *)
(* (litellm/proxy/management_endpoints/mcp_management_endpoints.py).       *)
(*                                                                         *)
(* Time is counted in minutes.  Python's None is the string "None" for     *)
(* string-valued settings and a tagged record for the model list.          *)
(* No response cache is configured (litellm.cache is None), so the          *)
(* readiness handler awaits nothing before it checks the database.         *)
(* perform_health_check and the background scheduling loop live outside    *)
(* the files at hand and follow sections 4.1-4.3 of the specification.     *)
(***************************************************************************)
EXTENDS Integers, Sequences, FiniteSets, TLC

\* ------------------------------------------------------------------ bounds
MaxTime == 3
NumCallers == 2
MaxEndpoints == 2
MaxCredentials == 2
MaxMcpRequests == 2

\* ------------------------------------------------------- program constants
\* timedelta(minutes=2) in _db_health_readiness_check
StalenessWindow == 2

Callers == 1..NumCallers

VARIABLES
    now,                \* datetime.now(), in minutes since the module was imported
    prisma_client,      \* proxy_server.prisma_client: TRUE when a client is set, FALSE for None
    db_health_cache,    \* the module-level dict {"status", "last_updated"}
    refreshed,          \* history: the status and the clock of the last refresh that wrote the dict
    rpc,                \* per caller: where its request is ("idle", "probing", "done")
    rkind,              \* per caller: which entry point it called
    rseen,              \* per caller: the cache record and clock the call read at line 386
    rprobes,            \* per caller: prisma_client.health_check() invocations of the call
    rcheck,             \* per caller: how that invocation ended ("none", "returned", "raised")
    rresp,              \* per caller: what the call returned or raised
    llm_model_list,     \* proxy_server.llm_model_list: None or the router's deployments
    user_model,         \* proxy_server.user_model: "None" or the model given on the command line
    use_background_health_checks,   \* proxy_server.use_background_health_checks
    health_check_results,           \* proxy_server.health_check_results: the last published report
    hpc,                \* the /health request: "idle", "running" (awaiting the run), "done"
    hmodel,             \* the request's `model` query parameter ("None" when absent)
    hpath,              \* which branch of health_endpoint the request took
    hruns,              \* perform_health_check invocations of the request
    run_input,          \* the model list and the filter the run was given
    run_endpoints,      \* the endpoints the run probes, in input order
    backend,            \* what each probed endpoint's backend call will do
    results,            \* the run's result buffer, one slot per probed endpoint
    order,              \* the probed endpoints in the order their probes completed
    abandoned,          \* probes declared timed out whose backend call is still running
    hresp,              \* what the /health request returned or raised
    sched_pc,           \* the background scheduler: "off", "sleeping", "running", "stopped"
    last_cycle,         \* how the scheduler's last cycle ended: "none", "published", "failed"
    tpc,                \* the /health/test_connection request: "idle", "probing", "done"
    treq,               \* the request's `mode` and `litellm_params`
    tcall,              \* what the request handed to run_with_timeout(litellm.ahealth_check(...))
    tprobes,            \* litellm.ahealth_check invocations of the request
    tresult,            \* what the awaited run returned
    traised,            \* the step of the request that raised ("none" when none did)
    tresp,              \* what the request returned or raised
    credential_list,    \* litellm.credential_list: the credentials held in memory
    credentials_table,  \* the rows of litellm_credentialstable
    cpc,                \* the POST /v1/credentials request: "idle", "creating", "done"
    creq,               \* the credential that request carries
    cresp,              \* what that request returned or raised
    ccall,              \* the last other credential request since, its answer and the list it met
    mcp_table,          \* the rows of litellm_mcpservertable: server_id -> url
    mpc,                \* per MCP request: "idle", "fetching", "creating", "deleting", "done"
    mreq,               \* per MCP request: the operation, the id, the payload, the caller's role
    mseen,              \* per MCP request: whether its fetch_mcp_server ran, and met a row
    mresp,              \* per MCP request: what it returned or raised
    mwrites,            \* per MCP request: the database write it issued ("none" when none)
    gate                \* the request the framework holds at a route's dependencies

rvars == <<now, prisma_client, db_health_cache, refreshed, rpc, rkind, rseen, rprobes, rcheck,
          rresp>>
hvars == <<llm_model_list, user_model, hpc, hmodel, hpath, hruns, run_input, run_endpoints,
           backend, results, order, abandoned, hresp>>
svars == <<use_background_health_checks, health_check_results, sched_pc, last_cycle>>
\* The endpoints of the later sections; the actions of the readiness, health
\* and scheduler sections leave them alone.
tvars == <<tpc, treq, tcall, tprobes, tresult, traised, tresp>>
cvars == <<credential_list, credentials_table, cpc, creq, cresp, ccall>>
mvars == <<mcp_table, mpc, mreq, mseen, mresp, mwrites>>
avars == <<gate>>
xvars == <<tvars, cvars, mvars, avars>>
vars == <<rvars, hvars, svars, xvars>>

\* ------------------------------------------------------------ dictionaries
\* {**a, **b}: the keys of both, b's value where both have the key.
Merge(a, b) ==
    [k \in (DOMAIN a) \cup (DOMAIN b) |-> IF k \in DOMAIN b THEN b[k] ELSE a[k]]

NoResp == [code |-> 0]
NoSeen == [read |-> FALSE]
NoRefresh == [done |-> FALSE]
Refresh(status, t) == [done |-> TRUE, status |-> status, at |-> t]

\* ---------------------------------------------------------------- readiness
\* db_health_cache = {"status": "unknown", "last_updated": datetime.now()}
InitialDbHealthCache == [status |-> "unknown", last_updated |-> 0]

\* The window compared with <= : a record exactly two minutes old still counts as fresh.
CacheIsFreshAtBoundary(cache, t) ==
    cache.status # "unknown" /\ t - cache.last_updated <= StalenessWindow

\* time_diff = datetime.now() - db_health_cache["last_updated"];
\* db_health_cache["status"] != "unknown" and time_diff < timedelta(minutes=2)
CacheIsFresh(cache, t) ==
    cache.status # "unknown" /\ t - cache.last_updated < StalenessWindow

\* The literal part of the 200 payload when a client is configured.
ConnectedLiteral ==
    [status |-> "healthy", db |-> "connected", cache |-> "None",
     litellm_version |-> "version", success_callbacks |-> <<>>]

\* return {"status": "healthy", "db": "connected", ..., **db_health_status}
ConnectedPayload(db_health_status) == Merge(ConnectedLiteral, db_health_status)

\* return {"status": "healthy", "db": "Not connected", ...}
NotConnectedPayload ==
    [status |-> "healthy", db |-> "Not connected", cache |-> "None",
     litellm_version |-> "version", success_callbacks |-> <<>>]

\* except Exception as e: raise HTTPException(status_code=503, ...)
ServiceUnhealthy == [code |-> 503, detail |-> "Service Unhealthy"]

\* What a call hands back for the record the function returned: the function
\* itself returns the record, the handler merges it into its payload.
Returned(kind, rec) ==
    IF kind = "readiness"
    THEN [code |-> 200, body |-> ConnectedPayload(rec)]
    ELSE [code |-> 200, body |-> rec]

\* The exception swallowed and the cached record served in its place.
RaisedServesCache(kind) == [code |-> 200, body |-> ConnectedPayload(db_health_cache)]

\* What a call hands back when prisma_client.health_check() raises: the
\* function lets it through, the handler turns it into a 503.
Raised(kind) ==
    IF kind = "readiness" THEN ServiceUnhealthy ELSE [code |-> -1, detail |-> "raised"]

\* A cache hit that restarts the window: the record served is stamped with the
\* time it was read.
db_health_readiness_check_touches(p, kind) ==
    /\ rkind' = [rkind EXCEPT ![p] = kind]
    /\ rseen' = [rseen EXCEPT ![p] = [read |-> TRUE, rec |-> db_health_cache, at |-> now,
                                      last |-> refreshed]]
    /\ rcheck' = [rcheck EXCEPT ![p] = "none"]
    /\ IF CacheIsFresh(db_health_cache, now)
       THEN /\ db_health_cache' = [db_health_cache EXCEPT !.last_updated = now]
            /\ rresp' = [rresp EXCEPT ![p] = Returned(kind, db_health_cache')]
            /\ rpc' = [rpc EXCEPT ![p] = "done"]
            /\ rprobes' = [rprobes EXCEPT ![p] = 0]
            /\ UNCHANGED refreshed
       ELSE IF ~prisma_client
       THEN /\ db_health_cache' = [status |-> "disconnected", last_updated |-> now]
            /\ refreshed' = Refresh("disconnected", now)
            /\ rresp' = [rresp EXCEPT ![p] = Returned(kind, db_health_cache')]
            /\ rpc' = [rpc EXCEPT ![p] = "done"]
            /\ rprobes' = [rprobes EXCEPT ![p] = 0]
       ELSE /\ rpc' = [rpc EXCEPT ![p] = "probing"]
            /\ rprobes' = [rprobes EXCEPT ![p] = 1]
            /\ rresp' = [rresp EXCEPT ![p] = NoResp]
            /\ UNCHANGED <<db_health_cache, refreshed>>
    /\ UNCHANGED <<now, prisma_client>>
    /\ UNCHANGED <<hvars, svars, xvars>>

\* _db_health_readiness_check() up to its first suspension point, for caller p
\* entering through `kind`.
db_health_readiness_check(p, kind) ==
    /\ rkind' = [rkind EXCEPT ![p] = kind]
    /\ rseen' = [rseen EXCEPT ![p] = [read |-> TRUE, rec |-> db_health_cache, at |-> now,
                                      last |-> refreshed]]
    /\ rcheck' = [rcheck EXCEPT ![p] = "none"]
    /\ IF CacheIsFresh(db_health_cache, now)
       THEN /\ rresp' = [rresp EXCEPT ![p] = Returned(kind, db_health_cache)]
            /\ rpc' = [rpc EXCEPT ![p] = "done"]
            /\ rprobes' = [rprobes EXCEPT ![p] = 0]
            /\ UNCHANGED <<db_health_cache, refreshed>>
       ELSE IF ~prisma_client
       THEN /\ db_health_cache' = [status |-> "disconnected", last_updated |-> now]
            /\ refreshed' = Refresh("disconnected", now)
            /\ rresp' = [rresp EXCEPT ![p] = Returned(kind, db_health_cache')]
            /\ rpc' = [rpc EXCEPT ![p] = "done"]
            /\ rprobes' = [rprobes EXCEPT ![p] = 0]
       ELSE /\ rpc' = [rpc EXCEPT ![p] = "probing"]     \* await prisma_client.health_check()
            /\ rprobes' = [rprobes EXCEPT ![p] = 1]
            /\ rresp' = [rresp EXCEPT ![p] = NoResp]
            /\ UNCHANGED <<db_health_cache, refreshed>>
    /\ UNCHANGED <<now, prisma_client>>
    /\ UNCHANGED <<hvars, svars, xvars>>

\* The readiness handler without its test of prisma_client: it checks the
\* database whether or not a client is configured.
health_readiness_unguarded(p) ==
    /\ rpc[p] # "probing"
    /\ db_health_readiness_check(p, "readiness")

\* GET /health/readiness, up to its first suspension point.
health_readiness(p) ==
    /\ rpc[p] # "probing"
    /\ IF prisma_client
       THEN db_health_readiness_check(p, "readiness")
       ELSE /\ rkind' = [rkind EXCEPT ![p] = "readiness"]
            /\ rseen' = [rseen EXCEPT ![p] = NoSeen]
            /\ rprobes' = [rprobes EXCEPT ![p] = 0]
            /\ rcheck' = [rcheck EXCEPT ![p] = "none"]
            /\ rresp' = [rresp EXCEPT ![p] = [code |-> 200, body |-> NotConnectedPayload]]
            /\ rpc' = [rpc EXCEPT ![p] = "done"]
            /\ UNCHANGED <<now, prisma_client, db_health_cache, refreshed>>
            /\ UNCHANGED <<hvars, svars, xvars>>

\* A direct call of _db_health_readiness_check().
db_check(p) ==
    /\ rpc[p] # "probing"
    /\ db_health_readiness_check(p, "db_check")

\* The status written after the await, the timestamp left as it was.
health_check_returns_keeps_stamp(p) ==
    /\ rpc[p] = "probing"
    /\ db_health_cache' = [db_health_cache EXCEPT !.status = "connected"]
    /\ refreshed' = Refresh("connected", now)
    /\ rresp' = [rresp EXCEPT ![p] = Returned(rkind[p], db_health_cache')]
    /\ rpc' = [rpc EXCEPT ![p] = "done"]
    /\ rcheck' = [rcheck EXCEPT ![p] = "returned"]
    /\ UNCHANGED <<now, prisma_client, rkind, rseen, rprobes, hvars, svars, xvars>>

\* prisma_client.health_check() returns: lines 395-396, then the caller's return.
health_check_returns(p) ==
    /\ rpc[p] = "probing"
    /\ db_health_cache' = [status |-> "connected", last_updated |-> now]
    /\ refreshed' = Refresh("connected", now)
    /\ rresp' = [rresp EXCEPT ![p] = Returned(rkind[p], db_health_cache')]
    /\ rpc' = [rpc EXCEPT ![p] = "done"]
    /\ rcheck' = [rcheck EXCEPT ![p] = "returned"]
    /\ UNCHANGED <<now, prisma_client, rkind, rseen, rprobes, hvars, svars, xvars>>

\* A failed check that marks the database unknown again.
health_check_raises_forgets(p) ==
    /\ rpc[p] = "probing"
    /\ db_health_cache' = [status |-> "unknown", last_updated |-> now]
    /\ rresp' = [rresp EXCEPT ![p] = Raised(rkind[p])]
    /\ rpc' = [rpc EXCEPT ![p] = "done"]
    /\ rcheck' = [rcheck EXCEPT ![p] = "raised"]
    /\ UNCHANGED <<now, prisma_client, refreshed, rkind, rseen, rprobes, hvars, svars, xvars>>

\* prisma_client.health_check() raises.
health_check_raises(p) ==
    /\ rpc[p] = "probing"
    /\ rresp' = [rresp EXCEPT ![p] = Raised(rkind[p])]
    /\ rpc' = [rpc EXCEPT ![p] = "done"]
    /\ rcheck' = [rcheck EXCEPT ![p] = "raised"]
    /\ UNCHANGED <<now, prisma_client, db_health_cache, refreshed, rkind, rseen, rprobes,
                   hvars, svars, xvars>>

\* return "I'm alive!"
LivelinessPayload == "I'm alive!"

\* A liveness probe that answers from the readiness record: unhealthy until
\* the database has been seen connected.
health_liveliness_checks_db(p) ==
    /\ rpc[p] # "probing"
    /\ rkind' = [rkind EXCEPT ![p] = "liveliness"]
    /\ rseen' = [rseen EXCEPT ![p] = NoSeen]
    /\ rprobes' = [rprobes EXCEPT ![p] = 0]
    /\ rcheck' = [rcheck EXCEPT ![p] = "none"]
    /\ rresp' = [rresp EXCEPT ![p] = IF db_health_cache.status = "connected"
                                     THEN [code |-> 200, body |-> "I'm alive!"]
                                     ELSE ServiceUnhealthy]
    /\ rpc' = [rpc EXCEPT ![p] = "done"]
    /\ UNCHANGED <<now, prisma_client, db_health_cache, refreshed, hvars, svars, xvars>>

\* GET /health/liveliness and /health/liveness.
health_liveliness(p) ==
    /\ rpc[p] # "probing"
    /\ rkind' = [rkind EXCEPT ![p] = "liveliness"]
    /\ rseen' = [rseen EXCEPT ![p] = NoSeen]
    /\ rprobes' = [rprobes EXCEPT ![p] = 0]
    /\ rcheck' = [rcheck EXCEPT ![p] = "none"]
    /\ rresp' = [rresp EXCEPT ![p] = [code |-> 200, body |-> LivelinessPayload]]
    /\ rpc' = [rpc EXCEPT ![p] = "done"]
    /\ UNCHANGED <<now, prisma_client, db_health_cache, refreshed, hvars, svars, xvars>>

\* The clock advances.
Tick ==
    /\ now < MaxTime
    /\ now' = now + 1
    /\ UNCHANGED <<prisma_client, db_health_cache, refreshed, rpc, rkind, rseen, rprobes, rcheck,
                   rresp,
                   hvars, svars, xvars>>

\* ------------------------------------------------------------ health checks
ModelNames == {"m1", "m2"}
Filters == {"None"} \cup ModelNames
ErrorMessages == {"connection refused", "rate limited"}
CliModel == "ollama/llama2"

\* Optional[list]: None, or a list of deployments (each named by its model).
NoModelList == [is_none |-> TRUE, items |-> <<>>]
ModelList(s) == [is_none |-> FALSE, items |-> s]
EndpointLists == UNION {[1..n -> ModelNames] : n \in 0..MaxEndpoints}

\* What a backend call does when probed: it answers, raises, or hangs past the deadline.
Behaviours ==
    {[does |-> "succeed", error |-> ""], [does |-> "hang", error |-> ""]}
    \cup {[does |-> "raise", error |-> m] : m \in ErrorMessages}

Pending == [kind |-> "pending", error |-> ""]

\* ProbeExecutor.probe: the outcome of one bounded backend call.
ProbeOutcome(b) ==
    CASE b.does = "succeed" -> [kind |-> "success", error |-> ""]
      [] b.does = "raise"   -> [kind |-> "failure", error |-> b.error]
      [] b.does = "hang"    -> [kind |-> "timeout", error |-> "timeout"]

\* The endpoints of a run: the model list in input order, each keeping its
\* position, restricted to the filter's model when a filter is given.
RunEndpoints(model_list, filter) ==
    SelectSeq([i \in 1..Len(model_list) |-> [idx |-> i, model |-> model_list[i]]],
              LAMBDA e : filter = "None" \/ e.model = filter)

\* The report assembled in the order the probes completed.
CompletionOrder(n, completion) == completion

\* The slot each place of the report is read from: results are keyed by the
\* endpoint's place in the run, never by completion order.
OutcomeOrder(n, completion) == [k \in 1..n |-> k]

Outcomes(endpoints, res, completion) ==
    [k \in 1..Len(endpoints) |->
        LET i == OutcomeOrder(Len(endpoints), completion)[k]
        IN  [idx |-> endpoints[i].idx, model |-> endpoints[i].model,
             kind |-> res[i].kind, error |-> res[i].error]]

IsHealthy(o) == o.kind = "success"

\* perform_health_check's two results: (healthy_endpoints, unhealthy_endpoints).
HealthyEndpoints(endpoints, res, completion) ==
    SelectSeq(Outcomes(endpoints, res, completion), IsHealthy)
UnhealthyEndpoints(endpoints, res, completion) ==
    SelectSeq(Outcomes(endpoints, res, completion), LAMBDA o : ~IsHealthy(o))

\* The unhealthy list filled from the healthy one.
HealthResponseHealthyTwice(healthy_endpoints, unhealthy_endpoints) ==
    [healthy_endpoints |-> healthy_endpoints,
     unhealthy_endpoints |-> healthy_endpoints,
     healthy_count |-> Len(healthy_endpoints),
     unhealthy_count |-> Len(healthy_endpoints)]

\* Both counts taken from the healthy list.
HealthResponseMiscounted(healthy_endpoints, unhealthy_endpoints) ==
    [healthy_endpoints |-> healthy_endpoints,
     unhealthy_endpoints |-> unhealthy_endpoints,
     healthy_count |-> Len(healthy_endpoints),
     unhealthy_count |-> Len(healthy_endpoints)]

\* The dict health_endpoint returns after a run over the router's models.
HealthResponse(healthy_endpoints, unhealthy_endpoints) ==
    [healthy_endpoints |-> healthy_endpoints,
     unhealthy_endpoints |-> unhealthy_endpoints,
     healthy_count |-> Len(healthy_endpoints),
     unhealthy_count |-> Len(unhealthy_endpoints)]

\* The dict health_endpoint returns after a run over the command-line model.
CliHealthResponse(healthy_endpoints, unhealthy_endpoints) ==
    [healthy_endpoints |-> healthy_endpoints,
     unhealthy_endpoints |-> unhealthy_endpoints,
     healthy_count |-> Len(healthy_endpoints),
     unhealthy_count |-> Len(unhealthy_endpoints)]

\* An empty report answered where the configuration error belongs.
EmptyAnswer ==
    [code |-> 200,
     body |-> [healthy_endpoints |-> <<>>, unhealthy_endpoints |-> <<>>,
               healthy_count |-> 0, unhealthy_count |-> 0]]

\* raise HTTPException(status_code=500, detail={"error": "Model list not initialized"})
ModelListNotInitialized == [code |-> 500, detail |-> "Model list not initialized"]

\* The report the scheduler has published before its first cycle ends.
EmptyReport ==
    [healthy_endpoints |-> <<>>, unhealthy_endpoints |-> <<>>,
     healthy_count |-> 0, unhealthy_count |-> 0]

NoRunInput == [model_list |-> <<>>, filter |-> "None"]

\* The request holds no run.
NoRun ==
    /\ run_input' = NoRunInput
    /\ run_endpoints' = <<>>
    /\ backend' = <<>>
    /\ results' = <<>>
    /\ order' = <<>>
    /\ abandoned' = {}

\* await perform_health_check(model_list, model): one task per endpoint is
\* launched and the request waits for all of them.
StartRun(model_list, filter, path) ==
    /\ hpath' = path
    /\ hruns' = 1
    /\ run_input' = [model_list |-> model_list, filter |-> filter]
    /\ run_endpoints' = RunEndpoints(model_list, filter)
    /\ backend' \in [1..Len(RunEndpoints(model_list, filter)) -> Behaviours]
    /\ results' = [i \in 1..Len(RunEndpoints(model_list, filter)) |-> Pending]
    /\ order' = <<>>
    /\ abandoned' = {}
    /\ hpc' = "running"
    /\ hresp' = NoResp

\* The cached results served only to unfiltered queries.
UseCachedResultsUnlessFiltered(model) == use_background_health_checks /\ model = "None"

\* if use_background_health_checks: return health_check_results
UseCachedResults(model) == use_background_health_checks

\* GET /health?model=..., up to its first suspension point.
health_endpoint(model) ==
    /\ hpc # "running"
    /\ hmodel' = model
    /\ IF llm_model_list.is_none
       THEN IF user_model # "None"
            THEN StartRun(<<user_model>>, "None", "cli")
            ELSE /\ hresp' = ModelListNotInitialized
                 /\ hpath' = "error"
                 /\ hruns' = 0
                 /\ hpc' = "done"
                 /\ NoRun
       ELSE IF UseCachedResults(model)
            THEN /\ hresp' = [code |-> 200, body |-> health_check_results]
                 /\ hpath' = "background"
                 /\ hruns' = 0
                 /\ hpc' = "done"
                 /\ NoRun
            ELSE StartRun(llm_model_list.items, model, "router")
    /\ UNCHANGED <<llm_model_list, user_model, rvars, svars, xvars>>

\* The probe of the run's i-th endpoint ends: with the backend's answer, with
\* its exception, or at the deadline with the backend call left running.
probe_finishes(i) ==
    /\ hpc = "running"
    /\ i \in DOMAIN results
    /\ results[i] = Pending
    /\ results' = [results EXCEPT ![i] = ProbeOutcome(backend[i])]
    /\ order' = Append(order, i)
    /\ abandoned' = IF backend[i].does = "hang" THEN abandoned \cup {i} ELSE abandoned
    /\ UNCHANGED <<llm_model_list, user_model, hpc, hmodel, hpath, hruns, run_input,
                   run_endpoints, backend, hresp, rvars, svars, xvars>>

\* A backend call abandoned at its deadline runs to completion: nothing reads it.
abandoned_call_finishes(i) ==
    /\ i \in abandoned
    /\ abandoned' = abandoned \ {i}
    /\ UNCHANGED <<llm_model_list, user_model, hpc, hmodel, hpath, hruns, run_input,
                   run_endpoints, backend, results, order, hresp, rvars, svars, xvars>>

\* Every task of the run has ended: perform_health_check returns and
\* health_endpoint builds its answer.
health_endpoint_returns ==
    /\ hpc = "running"
    /\ \A i \in DOMAIN results : results[i] # Pending
    /\ hresp' =
         [code |-> 200,
          body |-> IF hpath = "cli"
                   THEN CliHealthResponse(HealthyEndpoints(run_endpoints, results, order),
                                          UnhealthyEndpoints(run_endpoints, results, order))
                   ELSE HealthResponse(HealthyEndpoints(run_endpoints, results, order),
                                       UnhealthyEndpoints(run_endpoints, results, order))]
    /\ hpc' = "done"
    /\ UNCHANGED <<llm_model_list, user_model, hmodel, hpath, hruns, run_input,
                   run_endpoints, backend, results, order, abandoned, rvars, svars, xvars>>

\* -------------------------------------------------------- background scheduler
\* The exception ends the scheduling loop.
LoopEnds == "stopped"

\* Where the scheduling loop goes after an exception escaped a cycle.
AfterFailedCycle == "sleeping"

\* The interval elapses: the next cycle starts a run over the full model list.
scheduler_tick ==
    /\ sched_pc = "sleeping"
    /\ sched_pc' = "running"
    /\ UNCHANGED <<use_background_health_checks, health_check_results, last_cycle,
                   rvars, hvars, xvars>>

\* The backend behaviours the scheduler's cycles meet.
SchedulerBehaviours ==
    {[does |-> "succeed", error |-> ""], [does |-> "raise", error |-> "connection refused"]}

\* The cycle's run ends and its report replaces the last published one.
scheduler_publishes ==
    /\ sched_pc = "running"
    /\ \E b \in [1..Len(llm_model_list.items) -> SchedulerBehaviours] :
         LET endpoints == RunEndpoints(llm_model_list.items, "None")
             res == [i \in DOMAIN b |-> ProbeOutcome(b[i])]
         IN  health_check_results' =
                 HealthResponse(HealthyEndpoints(endpoints, res, <<>>),
                                UnhealthyEndpoints(endpoints, res, <<>>))
    /\ sched_pc' = "sleeping"
    /\ last_cycle' = "published"
    /\ UNCHANGED <<use_background_health_checks, rvars, hvars, xvars>>

\* An exception escapes the cycle: it is logged and the cycle is skipped.
scheduler_cycle_fails ==
    /\ sched_pc = "running"
    /\ sched_pc' = AfterFailedCycle
    /\ last_cycle' = "failed"
    /\ UNCHANGED <<use_background_health_checks, health_check_results, rvars, hvars, xvars>>

\* ---------------------------------------------------------- test connection
\* HEALTH_CHECK_TIMEOUT_SECONDS of litellm.constants: the one deadline the
\* handler passes to run_with_timeout, whatever the request says.
HEALTH_CHECK_TIMEOUT_SECONDS == "HEALTH_CHECK_TIMEOUT_SECONDS"

\* mode: str = Body("chat"); the body may also carry null.
ConnectionModes == {"None", "chat", "embedding", "completion"}

\* litellm_params: Dict = Body(None), dictionaries of connection parameters.
ConnectionParams ==
    { [model |-> "gpt-4", api_key |-> "sk-secret"],
      [model |-> "gpt-4", api_key |-> "sk-secret", mode |-> "embedding"],
      [model |-> "gpt-4", api_base |-> "https://host"],
      [model |-> "gpt-4", api_base |-> "https://host", timeout |-> "1"] }

\* The keys _clean_endpoint_data drops from what is displayed.
SensitiveKeys == {"api_key"}

\* What the awaited run can hand back: the probe's success, the probe's own
\* error, and the error run_with_timeout reports at the deadline.
ConnectionResults ==
    { [latency |-> "10ms"],
      [error |-> "connection refused"],
      [error |-> "timeout"] }

\* _update_litellm_params_for_health_check(model_info={}, litellm_params):
\* the parameters with the representative payload added.
PreparedParams(litellm_params) == Merge(litellm_params, [messages |-> "test"])

\* mode = mode or litellm_params.pop("mode", None), the value of mode
EffectiveMode(mode, litellm_params) ==
    IF mode # "None" THEN mode
    ELSE IF "mode" \in DOMAIN litellm_params THEN litellm_params["mode"]
    ELSE "None"

\* mode = mode or litellm_params.pop("mode", None), what is left of
\* litellm_params: pop runs only when mode is falsy.
ParamsAfterPop(mode, litellm_params) ==
    IF mode # "None" THEN litellm_params
    ELSE [k \in (DOMAIN litellm_params) \ {"mode"} |-> litellm_params[k]]

\* _clean_endpoint_data(endpoint_data, details=True)
CleanEndpointData(endpoint_data) ==
    [k \in (DOMAIN endpoint_data) \ SensitiveKeys |-> endpoint_data[k]]

\* The payload built from the merged dictionary itself, not from its cleaned copy.
ConnectionTestResponseRaw(litellm_params, result, cleaned_result) ==
    [code |-> 200,
     body |-> [status |-> IF "error" \in DOMAIN result THEN "error" ELSE "success",
               result |-> Merge(litellm_params, result)]]

\* return {"status": "error" if "error" in result else "success",
\*         "result": cleaned_result}
ConnectionTestResponse(litellm_params, result, cleaned_result) ==
    [code |-> 200,
     body |-> [status |-> IF "error" \in DOMAIN result THEN "error" ELSE "success",
               result |-> cleaned_result]]

\* An exception that is answered with the error payload of a finished probe.
ConnectionTestFailedAsPayload ==
    [code |-> 200, body |-> [status |-> "error", result |-> [error |-> "exception"]]]

\* except Exception as e: raise HTTPException(status_code=500,
\*     detail={"error": f"Failed to test connection: {str(e)}"})
ConnectionTestFailed == [code |-> 500, detail |-> "Failed to test connection"]

NoCall == [made |-> FALSE]
NoResult == [none |-> "None"]

\* The handler up to its await: it prepares the parameters, settles the mode
\* and starts the one probe under the deadline.  Preparing may raise.
test_model_connection(mode, litellm_params) ==
    /\ tpc # "probing"
    /\ treq' = [mode |-> mode, litellm_params |-> litellm_params]
    /\ tresult' = NoResult
    /\ \E prepared \in BOOLEAN :
         IF prepared
         THEN /\ tcall' = [made |-> TRUE,
                           model_params |-> ParamsAfterPop(mode, PreparedParams(litellm_params)),
                           mode |-> EffectiveMode(mode, PreparedParams(litellm_params)),
                           timeout |-> HEALTH_CHECK_TIMEOUT_SECONDS]
              /\ tprobes' = 1
              /\ tpc' = "probing"
              /\ traised' = "none"
              /\ tresp' = NoResp
         ELSE /\ tcall' = NoCall
              /\ tprobes' = 0
              /\ tpc' = "done"
              /\ traised' = "prepare"
              /\ tresp' = ConnectionTestFailed
    /\ UNCHANGED <<rvars, hvars, svars, cvars, mvars, avars>>

\* The awaited run returns; the handler merges, cleans and answers.
\* Cleaning may raise.
connection_probe_returns(result) ==
    /\ tpc = "probing"
    /\ tresult' = result
    /\ tpc' = "done"
    /\ \E cleaned \in BOOLEAN :
         IF cleaned
         THEN /\ tresp' = ConnectionTestResponse(
                              tcall.model_params, result,
                              CleanEndpointData(Merge(tcall.model_params, result)))
              /\ traised' = "none"
         ELSE /\ tresp' = ConnectionTestFailed
              /\ traised' = "clean"
    /\ UNCHANGED <<treq, tcall, tprobes>>
    /\ UNCHANGED <<rvars, hvars, svars, cvars, mvars, avars>>

\* The awaited run raises.
connection_probe_raises ==
    /\ tpc = "probing"
    /\ tpc' = "done"
    /\ traised' = "probe"
    /\ tresp' = ConnectionTestFailed
    /\ UNCHANGED <<treq, tcall, tprobes, tresult>>
    /\ UNCHANGED <<rvars, hvars, svars, cvars, mvars, avars>>

\* -------------------------------------------------------------- credentials
\* (litellm/proxy/credential_endpoints/endpoints.py)
CredentialNames == {"a", "b"}
CredentialValues == {"v1", "v2"}

\* CredentialItem
CredentialItems == [credential_name : CredentialNames, credential_values : CredentialValues]

\* litellm.credential_list: any list of items; names may repeat.
CredentialLists == UNION {[1..n -> CredentialItems] : n \in 0..MaxCredentials}

\* The place of the first item of the list named `name`, 0 when there is none.
FirstNamed(list, name) ==
    IF \E i \in DOMAIN list : list[i].credential_name = name
    THEN CHOOSE i \in DOMAIN list :
           /\ list[i].credential_name = name
           /\ \A j \in 1..(i - 1) : list[j].credential_name # name
    ELSE 0

\* The rows of litellm_credentialstable a list was loaded from: one per name.
RowsOf(list) == {list[i] : i \in {j \in DOMAIN list : FirstNamed(list, list[j].credential_name) = j}}

\* return {"success": True, "message": "Credential created successfully"}
CredentialCreated == [success |-> TRUE, message |-> "Credential created successfully"]

\* raise HTTPException(status_code=500, detail={"error": db_not_connected_error})
\* handed through handle_exception_on_proxy
CredentialDbNotConnected == [success |-> FALSE, code |-> 500, message |-> "DB not connected"]

\* raise handle_exception_on_proxy(e) for what the database raised
CredentialCreateFailed == [success |-> FALSE, code |-> 500, message |-> "create failed"]

\* for credential in litellm.credential_list: if credential.credential_name ==
\* credential_name: return {"success": True, "credential": credential}
GetCredential(list, credential_name) ==
    IF FirstNamed(list, credential_name) = 0
    THEN [success |-> FALSE, message |-> "Credential not found"]
    ELSE [success |-> TRUE, credential |-> list[FirstNamed(list, credential_name)]]

\* A comprehension that stops filtering after the first match.
WithoutFirstNamed(list, credential_name) ==
    IF \E i \in DOMAIN list : list[i].credential_name = credential_name
    THEN LET k == CHOOSE i \in DOMAIN list :
                    /\ list[i].credential_name = credential_name
                    /\ \A j \in 1..(i - 1) : list[j].credential_name # credential_name
         IN  SubSeq(list, 1, k - 1) \o SubSeq(list, k + 1, Len(list))
    ELSE list

\* [credential for credential in litellm.credential_list
\*  if credential.credential_name != credential_name]
WithoutNamed(list, credential_name) ==
    SelectSeq(list, LAMBDA credential : credential.credential_name # credential_name)

\* The loop without its return: every match is replaced.
WithEveryReplaced(list, credential_name, credential) ==
    [i \in DOMAIN list |->
        IF list[i].credential_name = credential_name THEN credential ELSE list[i]]

\* for i, c in enumerate(litellm.credential_list): if c.credential_name ==
\* credential_name: litellm.credential_list[i] = credential; return
WithFirstReplaced(list, credential_name, credential) ==
    IF FirstNamed(list, credential_name) = 0
    THEN list
    ELSE [list EXCEPT ![FirstNamed(list, credential_name)] = credential]

NoCredentialRequest == [made |-> FALSE]
NoCredentialCall == [op |-> "none"]

\* POST /v1/credentials up to its await.
create_credential(credential) ==
    /\ cpc # "creating"
    /\ creq' = [made |-> TRUE, credential |-> credential]
    /\ IF ~prisma_client
       THEN /\ cpc' = "done"
            /\ cresp' = CredentialDbNotConnected
       ELSE /\ cpc' = "creating"
            /\ cresp' = NoResp
    /\ UNCHANGED <<credential_list, credentials_table, ccall>>
    /\ UNCHANGED <<rvars, hvars, svars, tvars, mvars, avars>>

\* litellm_credentialstable.create(...) returns: the row is stored and the
\* handler answers.
credential_row_created ==
    /\ cpc = "creating"
    /\ \A row \in credentials_table : row.credential_name # creq.credential.credential_name
    /\ credentials_table' = credentials_table \cup {creq.credential}
    /\ cresp' = CredentialCreated
    /\ cpc' = "done"
    /\ ccall' = NoCredentialCall
    /\ UNCHANGED <<credential_list, creq>>
    /\ UNCHANGED <<rvars, hvars, svars, tvars, mvars, avars>>

\* litellm_credentialstable.create(...) raises: the name is taken, or the
\* database fails.
credential_create_raises ==
    /\ cpc = "creating"
    /\ cresp' = CredentialCreateFailed
    /\ cpc' = "done"
    /\ UNCHANGED <<credential_list, credentials_table, creq, ccall>>
    /\ UNCHANGED <<rvars, hvars, svars, tvars, mvars, avars>>

\* GET /v1/credentials
get_credentials ==
    /\ ccall' = [op |-> "list", resp |-> [success |-> TRUE, credentials |-> credential_list]]
    /\ UNCHANGED <<credential_list, credentials_table, cpc, creq, cresp>>
    /\ UNCHANGED <<rvars, hvars, svars, tvars, mvars, avars>>

\* GET /v1/credentials/{credential_name}
get_credential(credential_name) ==
    /\ ccall' = [op |-> "get", credential_name |-> credential_name,
                 resp |-> GetCredential(credential_list, credential_name)]
    /\ UNCHANGED <<credential_list, credentials_table, cpc, creq, cresp>>
    /\ UNCHANGED <<rvars, hvars, svars, tvars, mvars, avars>>

\* DELETE /v1/credentials/{credential_name}
delete_credential(credential_name) ==
    /\ credential_list' = WithoutNamed(credential_list, credential_name)
    /\ ccall' = [op |-> "delete", credential_name |-> credential_name,
                 before |-> credential_list,
                 resp |-> [success |-> TRUE, message |-> "Credential deleted successfully"]]
    /\ UNCHANGED <<credentials_table, cpc, creq, cresp>>
    /\ UNCHANGED <<rvars, hvars, svars, tvars, mvars, avars>>

\* PUT /v1/credentials/{credential_name}
update_credential(credential_name, credential) ==
    /\ credential_list' = WithFirstReplaced(credential_list, credential_name, credential)
    /\ ccall' = [op |-> "update", credential_name |-> credential_name,
                 credential |-> credential, before |-> credential_list,
                 resp |-> IF FirstNamed(credential_list, credential_name) = 0
                          THEN [success |-> FALSE, message |-> "Credential not found"]
                          ELSE [success |-> TRUE, message |-> "Credential updated successfully"]]
    /\ UNCHANGED <<credentials_table, cpc, creq, cresp>>
    /\ UNCHANGED <<rvars, hvars, svars, tvars, mvars, avars>>

\* -------------------------------------------------------------- MCP servers
\* (litellm/proxy/management_endpoints/mcp_management_endpoints.py)
\* The requests of a behaviour, each made once, in any order and overlap.
McpRequests == 1..MaxMcpRequests

\* Server ids a payload or a path can name, and the one id the database
\* makes up for a payload that names none.
ServerIds == {"s1"}
GeneratedIds == {"u1"}
ServerUrls == {"x", "y"}

\* user_api_key_dict.user_role: unset, the administrator's, any other.
UserRoles == {"None", "PROXY_ADMIN", "INTERNAL_USER"}

\* An administrator's role, or none at all.
IsProxyAdminOrUnset(user_role) == user_role = "None" \/ user_role = "PROXY_ADMIN"

\* not (user_role is None or user_role != LitellmUserRoles.PROXY_ADMIN)
IsProxyAdmin(user_role) == ~(user_role = "None" \/ user_role # "PROXY_ADMIN")

\* An existence test that never finds the id.
NothingExists(table, server_id) == "None"

\* fetch_mcp_server: the row with that id, None when there is none.
FetchMcpServer(table, server_id) ==
    IF server_id \in DOMAIN table THEN table[server_id] ELSE "None"

\* The table with one more row.
WithRow(table, server_id, url) ==
    [k \in (DOMAIN table) \cup {server_id} |-> IF k = server_id THEN url ELSE table[k]]

\* The table without the row of that id.
WithoutRow(table, server_id) == [k \in (DOMAIN table) \ {server_id} |-> table[k]]

McpDbNotConnected == [code |-> 500, detail |-> "Database not connected"]
McpAlreadyExists == [code |-> 400, detail |-> "already exists. Cannot overwrite."]
McpCreateForbidden == [code |-> 403, detail |-> "You can only create mcp servers if you are a PROXY_ADMIN."]
McpCreateFailed == [code |-> 500, detail |-> "Error creating mcp server"]
McpNoDb == [code |-> 500, detail |-> "No db connected"]
McpDeleteForbidden == [code |-> 403, detail |-> "You can only delete mcp servers if you are a PROXY_ADMIN."]
McpNotFound == [code |-> 404, detail |-> "not found"]
McpAccepted == [code |-> 202, detail |-> ""]
McpDeleteRaised == [code |-> -1, detail |-> "raised"]
McpCreatedRow(server_id, url) == [code |-> 200, detail |-> "", server_id |-> server_id, url |-> url]

NoMcpRequest == [op |-> "none"]
NotFetched == [fetched |-> FALSE]

\* create_mcp_server from the test of the caller's role on: lines 273-286,
\* up to the await of db_create_mcp_server.
create_mcp_server_checks_role(r, user_role) ==
    IF IsProxyAdmin(user_role)
    THEN /\ mpc' = [mpc EXCEPT ![r] = "creating"]
         /\ mresp' = [mresp EXCEPT ![r] = NoResp]
    ELSE /\ mpc' = [mpc EXCEPT ![r] = "done"]
         /\ mresp' = [mresp EXCEPT ![r] = McpCreateForbidden]

\* POST /v1/mcp/server up to its first await.
create_mcp_server(r, server_id, url, user_role) ==
    /\ mpc[r] = "idle"
    /\ mreq' = [mreq EXCEPT ![r] = [op |-> "create", server_id |-> server_id, url |-> url,
                                    user_role |-> user_role]]
    /\ mseen' = [mseen EXCEPT ![r] = NotFetched]
    /\ mwrites' = [mwrites EXCEPT ![r] = "none"]
    /\ IF ~prisma_client
       THEN /\ mpc' = [mpc EXCEPT ![r] = "done"]
            /\ mresp' = [mresp EXCEPT ![r] = McpDbNotConnected]
       ELSE IF server_id # "None"
       THEN /\ mpc' = [mpc EXCEPT ![r] = "fetching"]
            /\ mresp' = [mresp EXCEPT ![r] = NoResp]
       ELSE create_mcp_server_checks_role(r, user_role)
    /\ UNCHANGED mcp_table
    /\ UNCHANGED <<rvars, hvars, svars, tvars, cvars, avars>>

\* fetch_mcp_server returns to create_mcp_server: lines 266-286.
mcp_fetch_returns(r) ==
    /\ mpc[r] = "fetching"
    /\ mseen' = [mseen EXCEPT ![r] = [fetched |-> TRUE,
                                      existed |-> mreq[r].server_id \in DOMAIN mcp_table]]
    /\ IF FetchMcpServer(mcp_table, mreq[r].server_id) # "None"
       THEN /\ mpc' = [mpc EXCEPT ![r] = "done"]
            /\ mresp' = [mresp EXCEPT ![r] = McpAlreadyExists]
       ELSE create_mcp_server_checks_role(r, mreq[r].user_role)
    /\ UNCHANGED <<mcp_table, mreq, mwrites>>
    /\ UNCHANGED <<rvars, hvars, svars, tvars, cvars, avars>>

\* litellm_mcpservertable.create returns: a row under the payload's id, or
\* under an id the database makes up, and no row of that id before.
mcp_row_created(r) ==
    /\ mpc[r] = "creating"
    /\ \E server_id \in IF mreq[r].server_id = "None" THEN GeneratedIds ELSE {mreq[r].server_id} :
         /\ server_id \notin DOMAIN mcp_table
         /\ mcp_table' = WithRow(mcp_table, server_id, mreq[r].url)
         /\ mresp' = [mresp EXCEPT ![r] = McpCreatedRow(server_id, mreq[r].url)]
    /\ mwrites' = [mwrites EXCEPT ![r] = "create"]
    /\ mpc' = [mpc EXCEPT ![r] = "done"]
    /\ UNCHANGED <<mreq, mseen>>
    /\ UNCHANGED <<rvars, hvars, svars, tvars, cvars, avars>>

\* litellm_mcpservertable.create raises (the id is taken by now, or the
\* database fails): except Exception -> 500.
mcp_create_raises(r) ==
    /\ mpc[r] = "creating"
    /\ mwrites' = [mwrites EXCEPT ![r] = "create"]
    /\ mresp' = [mresp EXCEPT ![r] = McpCreateFailed]
    /\ mpc' = [mpc EXCEPT ![r] = "done"]
    /\ UNCHANGED <<mcp_table, mreq, mseen>>
    /\ UNCHANGED <<rvars, hvars, svars, tvars, cvars, avars>>

\* DELETE /v1/mcp/server/{server_id} up to its await.
delete_mcp_server(r, server_id, user_role) ==
    /\ mpc[r] = "idle"
    /\ mreq' = [mreq EXCEPT ![r] = [op |-> "delete", server_id |-> server_id, url |-> "None",
                                    user_role |-> user_role]]
    /\ mseen' = [mseen EXCEPT ![r] = NotFetched]
    /\ mwrites' = [mwrites EXCEPT ![r] = "none"]
    /\ IF ~prisma_client
       THEN /\ mpc' = [mpc EXCEPT ![r] = "done"]
            /\ mresp' = [mresp EXCEPT ![r] = McpNoDb]
       ELSE IF ~IsProxyAdmin(user_role)
       THEN /\ mpc' = [mpc EXCEPT ![r] = "done"]
            /\ mresp' = [mresp EXCEPT ![r] = McpDeleteForbidden]
       ELSE /\ mpc' = [mpc EXCEPT ![r] = "deleting"]
            /\ mresp' = [mresp EXCEPT ![r] = NoResp]
    /\ UNCHANGED mcp_table
    /\ UNCHANGED <<rvars, hvars, svars, tvars, cvars, avars>>

\* litellm_mcpservertable.delete returns the deleted row, or None when there
\* was none: lines 341-346.
mcp_row_deleted(r) ==
    /\ mpc[r] = "deleting"
    /\ mcp_table' = WithoutRow(mcp_table, mreq[r].server_id)
    /\ mresp' = [mresp EXCEPT ![r] = IF FetchMcpServer(mcp_table, mreq[r].server_id) = "None"
                                     THEN McpNotFound ELSE McpAccepted]
    /\ mwrites' = [mwrites EXCEPT ![r] = "delete"]
    /\ mpc' = [mpc EXCEPT ![r] = "done"]
    /\ UNCHANGED <<mreq, mseen>>
    /\ UNCHANGED <<rvars, hvars, svars, tvars, cvars, avars>>

\* litellm_mcpservertable.delete raises: nothing in the handler catches it.
mcp_delete_raises(r) ==
    /\ mpc[r] = "deleting"
    /\ mwrites' = [mwrites EXCEPT ![r] = "delete"]
    /\ mresp' = [mresp EXCEPT ![r] = McpDeleteRaised]
    /\ mpc' = [mpc EXCEPT ![r] = "done"]
    /\ UNCHANGED <<mcp_table, mreq, mseen>>
    /\ UNCHANGED <<rvars, hvars, svars, tvars, cvars, avars>>

\* ----------------------------------------------------------- authentication
\* The dependencies each route of the health router declares in its
\* decorator.  The framework resolves them before it calls the handler; a
\* dependency that raises ends the request there.
UnprotectedProbesDependencies ==
    [route \in {"/health/liveliness", "/health/readiness", "/health", "/health/services",
                "/health/test_connection", "/settings"} |->
        IF route \in {"/health/liveliness", "/health/readiness"}
        THEN {}
        ELSE {"user_api_key_auth"}]

\* dependencies=[Depends(user_api_key_auth)] on every route
RouteDependencies ==
    [route \in {"/health/liveliness", "/health/readiness", "/health", "/health/services",
                "/health/test_connection", "/settings"} |-> {"user_api_key_auth"}]

HealthRoutes == DOMAIN RouteDependencies

\* The routes whose handlers are not modelled beyond the fact that they ran.
OtherRoutes == {"/health/services", "/settings"}

NoArrival == [route |-> "none", approved |-> FALSE, ran |-> FALSE]

\* The request at the gate may enter the handler of `route`.
Open(route) ==
    /\ gate.route = route
    /\ "user_api_key_auth" \in RouteDependencies[route] => gate.approved

\* A request for `route` arrives and user_api_key_auth approves it or raises.
request_arrives(route, approved) ==
    /\ gate' = [route |-> route, approved |-> approved, ran |-> FALSE]
    /\ UNCHANGED <<rvars, hvars, svars, tvars, cvars, mvars>>

\* health_services_endpoint or active_callbacks runs.
handler_runs(route) ==
    /\ route \in OtherRoutes
    /\ Open(route)
    /\ ~gate.ran
    /\ gate' = [gate EXCEPT !.ran = TRUE]
    /\ UNCHANGED <<rvars, hvars, svars, tvars, cvars, mvars>>

\* ------------------------------------------------------------ specifications
ReadinessIdle ==
    /\ now = 0
    /\ db_health_cache = InitialDbHealthCache
    /\ refreshed = NoRefresh
    /\ rpc = [p \in Callers |-> "idle"]
    /\ rkind = [p \in Callers |-> "none"]
    /\ rseen = [p \in Callers |-> NoSeen]
    /\ rprobes = [p \in Callers |-> 0]
    /\ rcheck = [p \in Callers |-> "none"]
    /\ rresp = [p \in Callers |-> NoResp]

HealthIdle ==
    /\ hpc = "idle"
    /\ hmodel = "None"
    /\ hpath = "none"
    /\ hruns = 0
    /\ run_input = NoRunInput
    /\ run_endpoints = <<>>
    /\ backend = <<>>
    /\ results = <<>>
    /\ order = <<>>
    /\ abandoned = {}
    /\ hresp = NoResp

\* A report published by an earlier cycle.
StaleReport ==
    HealthResponse(<<>>, <<[idx |-> 1, model |-> "m1", kind |-> "timeout", error |-> "timeout"]>>)

SchedulerIdle ==
    /\ sched_pc = IF use_background_health_checks THEN "sleeping" ELSE "off"
    /\ last_cycle = "none"

\* The single-connection test.
TestConnectionIdle ==
    /\ tpc = "idle"
    /\ treq = [mode |-> "None", litellm_params |-> <<>>]
    /\ tcall = NoCall
    /\ tprobes = 0
    /\ tresult = NoResult
    /\ traised = "none"
    /\ tresp = NoResp

\* The credential store.
CredentialsIdle ==
    /\ credential_list = <<>>
    /\ credentials_table = {}
    /\ cpc = "idle"
    /\ creq = NoCredentialRequest
    /\ cresp = NoResp
    /\ ccall = NoCredentialCall

\* The MCP server registry.
McpIdle ==
    /\ mpc = [r \in McpRequests |-> "idle"]
    /\ mreq = [r \in McpRequests |-> NoMcpRequest]
    /\ mseen = [r \in McpRequests |-> NotFetched]
    /\ mresp = [r \in McpRequests |-> NoResp]
    /\ mwrites = [r \in McpRequests |-> "none"]

ExtensionsIdle ==
    /\ TestConnectionIdle
    /\ CredentialsIdle
    /\ mcp_table = <<>>
    /\ McpIdle
    /\ gate = NoArrival

\* The readiness and liveness probes, with any number of concurrent callers.
InitReadiness ==
    /\ prisma_client \in BOOLEAN
    /\ ReadinessIdle
    /\ llm_model_list = NoModelList
    /\ user_model = "None"
    /\ HealthIdle
    /\ use_background_health_checks \in BOOLEAN
    /\ health_check_results = EmptyReport
    /\ SchedulerIdle
    /\ ExtensionsIdle

NextReadiness ==
    \/ Tick
    \/ \E p \in Callers : health_readiness(p)
    \/ \E p \in Callers : db_check(p)
    \/ \E p \in Callers : health_check_returns(p)
    \/ \E p \in Callers : health_check_raises(p)
    \/ \E p \in Callers : health_liveliness(p)

SpecReadiness == InitReadiness /\ [][NextReadiness]_vars

\* The on-demand health check, in every configuration.
InitHealth ==
    /\ prisma_client = FALSE
    /\ ReadinessIdle
    /\ llm_model_list \in {NoModelList} \cup {ModelList(s) : s \in EndpointLists}
    /\ user_model \in {"None", CliModel}
    /\ HealthIdle
    /\ use_background_health_checks \in BOOLEAN
    /\ health_check_results \in {EmptyReport, StaleReport}
    /\ SchedulerIdle
    /\ ExtensionsIdle

NextHealth ==
    \/ \E model \in Filters : health_endpoint(model)
    \/ \E i \in 1..MaxEndpoints : probe_finishes(i)
    \/ \E i \in 1..MaxEndpoints : abandoned_call_finishes(i)
    \/ health_endpoint_returns

SpecHealth == InitHealth /\ [][NextHealth]_vars

\* The background scheduler over a router's model list, with on-demand
\* queries arriving while it runs.
InitScheduler ==
    /\ prisma_client = FALSE
    /\ ReadinessIdle
    /\ llm_model_list \in {ModelList(s) : s \in EndpointLists}
    /\ user_model = "None"
    /\ HealthIdle
    /\ use_background_health_checks = TRUE
    /\ health_check_results = EmptyReport
    /\ SchedulerIdle
    /\ ExtensionsIdle

NextScheduler ==
    \/ scheduler_tick
    \/ scheduler_publishes
    \/ scheduler_cycle_fails
    \/ \E model \in Filters : health_endpoint(model)

SpecScheduler == InitScheduler /\ [][NextScheduler]_vars

SchedulerFairness ==
    /\ WF_vars(scheduler_tick)
    /\ WF_vars(scheduler_publishes \/ scheduler_cycle_fails)

FairSpecScheduler == SpecScheduler /\ SchedulerFairness

\* The single-connection test, one request after another.
InitTestConnection ==
    /\ prisma_client = FALSE
    /\ ReadinessIdle
    /\ llm_model_list = NoModelList
    /\ user_model = "None"
    /\ HealthIdle
    /\ use_background_health_checks = FALSE
    /\ health_check_results = EmptyReport
    /\ SchedulerIdle
    /\ ExtensionsIdle

NextTestConnection ==
    \/ \E mode \in ConnectionModes, litellm_params \in ConnectionParams :
         test_model_connection(mode, litellm_params)
    \/ \E result \in ConnectionResults : connection_probe_returns(result)
    \/ connection_probe_raises

SpecTestConnection == InitTestConnection /\ [][NextTestConnection]_vars

\* The credential endpoints over a list loaded at start-up, a creation in
\* flight at most.
InitCredentials ==
    /\ prisma_client \in BOOLEAN
    /\ ReadinessIdle
    /\ llm_model_list = NoModelList
    /\ user_model = "None"
    /\ HealthIdle
    /\ use_background_health_checks = FALSE
    /\ health_check_results = EmptyReport
    /\ SchedulerIdle
    /\ TestConnectionIdle
    /\ credential_list \in CredentialLists
    /\ credentials_table = RowsOf(credential_list)
    /\ cpc = "idle"
    /\ creq = NoCredentialRequest
    /\ cresp = NoResp
    /\ ccall = NoCredentialCall
    /\ mcp_table = <<>>
    /\ McpIdle
    /\ gate = NoArrival

NextCredentials ==
    \/ \E credential \in CredentialItems : create_credential(credential)
    \/ credential_row_created
    \/ credential_create_raises
    \/ get_credentials
    \/ \E credential_name \in CredentialNames : get_credential(credential_name)
    \/ \E credential_name \in CredentialNames : delete_credential(credential_name)
    \/ \E credential_name \in CredentialNames, credential \in CredentialItems :
         update_credential(credential_name, credential)

SpecCredentials == InitCredentials /\ [][NextCredentials]_vars

\* The MCP server endpoints, with concurrent requests over a table that may
\* hold rows already.
McpTables == UNION {[ids -> ServerUrls] : ids \in SUBSET (ServerIds \cup GeneratedIds)}

InitMcp ==
    /\ prisma_client \in BOOLEAN
    /\ ReadinessIdle
    /\ llm_model_list = NoModelList
    /\ user_model = "None"
    /\ HealthIdle
    /\ use_background_health_checks = FALSE
    /\ health_check_results = EmptyReport
    /\ SchedulerIdle
    /\ TestConnectionIdle
    /\ CredentialsIdle
    /\ mcp_table \in McpTables
    /\ McpIdle
    /\ gate = NoArrival

NextMcp ==
    \/ \E r \in McpRequests, server_id \in {"None"} \cup ServerIds, url \in ServerUrls,
          user_role \in UserRoles : create_mcp_server(r, server_id, url, user_role)
    \/ \E r \in McpRequests : mcp_fetch_returns(r)
    \/ \E r \in McpRequests : mcp_row_created(r)
    \/ \E r \in McpRequests : mcp_create_raises(r)
    \/ \E r \in McpRequests, server_id \in ServerIds \cup GeneratedIds, user_role \in UserRoles :
         delete_mcp_server(r, server_id, user_role)
    \/ \E r \in McpRequests : mcp_row_deleted(r)
    \/ \E r \in McpRequests : mcp_delete_raises(r)

SpecMcp == InitMcp /\ [][NextMcp]_vars

\* The health router behind its gate: requests arrive approved or not, and a
\* handler starts only for the request at the gate.
InitAuth ==
    /\ prisma_client \in BOOLEAN
    /\ ReadinessIdle
    /\ llm_model_list = ModelList(<<"m1">>)
    /\ user_model = "None"
    /\ HealthIdle
    /\ use_background_health_checks = TRUE
    /\ health_check_results = StaleReport
    /\ SchedulerIdle
    /\ ExtensionsIdle

NextAuth ==
    \/ \E route \in HealthRoutes, approved \in BOOLEAN : request_arrives(route, approved)
    \/ \E route \in OtherRoutes : handler_runs(route)
    \/ Open("/health/liveliness") /\ \E p \in Callers : health_liveliness(p)
    \/ Open("/health/readiness") /\ \E p \in Callers : health_readiness(p)
    \/ \E p \in Callers : health_check_returns(p)
    \/ \E p \in Callers : health_check_raises(p)
    \/ Open("/health") /\ \E model \in Filters : health_endpoint(model)
    \/ Open("/health/test_connection")
         /\ \E litellm_params \in {q \in ConnectionParams : DOMAIN q = {"model", "api_key"}} :
              test_model_connection("chat", litellm_params)
    \/ \E result \in ConnectionResults : connection_probe_returns(result)
    \/ connection_probe_raises

SpecAuth == InitAuth /\ [][NextAuth]_vars

\* ------------------------------------------------------------------ claims
\* The age, when the call read it, of the record caller p's call read.
SeenAge(p) == rseen[p].at - rseen[p].rec.last_updated

\* Caller p's call went through _db_health_readiness_check with a client configured.
CheckedDb(p) == rkind[p] \in {"readiness", "db_check"} /\ prisma_client /\ rseen[p].read

\* C1: with a database client configured, a call of the dependency check that
\* reads a record written by a successful probe less than the staleness window
\* ago does not invoke prisma_client.health_check() and returns that record; a
\* call that reads a record as old as the window, or older, invokes it exactly
\* once.
C1_CachedWithinWindow ==
    \A p \in Callers :
        (CheckedDb(p) /\ rseen[p].rec.status = "connected") =>
            IF SeenAge(p) < StalenessWindow
            THEN /\ rprobes[p] = 0
                 /\ rcheck[p] = "none"
                 /\ rpc[p] = "done"
                 /\ rresp[p].code = 200
                 /\ rresp[p].body.last_updated = rseen[p].rec.last_updated
                 /\ rkind[p] = "db_check" => rresp[p].body = rseen[p].rec
            ELSE /\ rprobes[p] = 1
                 /\ rpc[p] = "done" => rcheck[p] # "none"

\* One caller was served a one-minute-old record from the cache; another
\* called when the record was two minutes old and is probing again.
C1_Witness ==
    \E p, q \in Callers :
        /\ CheckedDb(p) /\ rseen[p].rec.status = "connected"
        /\ SeenAge(p) = 1 /\ rpc[p] = "done" /\ rprobes[p] = 0
        /\ CheckedDb(q) /\ rseen[q].rec.status = "connected"
        /\ SeenAge(q) = StalenessWindow /\ rprobes[q] = 1

\* C2: when prisma_client.health_check() raises during a readiness query, the
\* query ends with HTTP 503 "Service Unhealthy": no success payload, and no
\* other form of the exception.
C2_RaisingCheckGives503 ==
    \A p \in Callers :
        (rkind[p] = "readiness" /\ rcheck[p] = "raised") =>
            /\ rpc[p] = "done"
            /\ rresp[p].code = 503
            /\ rresp[p].detail = "Service Unhealthy"
            /\ DOMAIN rresp[p] = {"code", "detail"}

\* A readiness query met a stale "connected" record, probed, and the probe raised.
C2_Witness ==
    \E p \in Callers :
        /\ rkind[p] = "readiness" /\ rcheck[p] = "raised"
        /\ rseen[p].read /\ rseen[p].rec.status = "connected"
        /\ db_health_cache.status = "connected"

\* C4: a 200 readiness response carries status "healthy", with db "connected"
\* when a database client is configured and "Not connected" when none is.
C4_StatusAlwaysHealthy ==
    \A p \in Callers :
        (rkind[p] = "readiness" /\ rpc[p] = "done" /\ rresp[p].code = 200) =>
            /\ rresp[p].body.status = "healthy"
            /\ rresp[p].body.db = IF prisma_client THEN "connected" ELSE "Not connected"

\* C5: the liveness query answers the fixed literal with 200 whatever the
\* state, invokes no dependency check, and leaves the readiness record and the
\* published health report as they were.
C5_LivenessIsConstant ==
    [][\A p \in Callers :
          health_liveliness(p) =>
              /\ rresp'[p] = [code |-> 200, body |-> "I'm alive!"]
              /\ rprobes'[p] = 0
              /\ rpc'[p] = "done"
              /\ db_health_cache' = db_health_cache
              /\ health_check_results' = health_check_results
              /\ \A q \in Callers \ {p} : rpc'[q] = rpc[q] /\ rresp'[q] = rresp[q]]_vars

\* The liveness query answered while the database check of another caller
\* had failed and the record was stale, with background mode on.
C5_Witness ==
    \E p, q \in Callers :
        /\ rkind[p] = "liveliness" /\ rpc[p] = "done"
        /\ rresp[p] = [code |-> 200, body |-> "I'm alive!"]
        /\ rcheck[q] = "raised"
        /\ db_health_cache.status = "connected"
        /\ now - db_health_cache.last_updated >= StalenessWindow
        /\ use_background_health_checks

\* The request made one orchestration run and has its answer.
RunReturned == hpc = "done" /\ hruns = 1

\* The positions, in the run's input list, of the entries of a report list.
Positions(entries) == {entries[k].idx : k \in 1..Len(entries)}

\* The positions of the input list the run's filter selects.
Selected ==
    {i \in 1..Len(run_input.model_list) :
        run_input.filter = "None" \/ run_input.model_list[i] = run_input.filter}

\* C3 as claimed: whenever background mode is enabled, in every configuration,
\* an on-demand query returns the last published report and starts no run.
C3_CachedInEveryConfiguration ==
    (use_background_health_checks /\ hpc # "idle") =>
        /\ hpc = "done"
        /\ hruns = 0
        /\ hresp = [code |-> 200, body |-> health_check_results]

\* C3, amended: whenever background mode is enabled and a router model list
\* is set, an on-demand query, filtered or not, returns the last published
\* report unchanged and starts no run.
C3_CachedWhenModelListSet ==
    (use_background_health_checks /\ ~llm_model_list.is_none /\ hpc # "idle") =>
        /\ hpc = "done"
        /\ hruns = 0
        /\ run_endpoints = <<>> /\ results = <<>> /\ order = <<>>
        /\ hresp = [code |-> 200, body |-> health_check_results]

\* A filtered query over two configured deployments was answered with the
\* report published earlier.
C3_Witness ==
    /\ use_background_health_checks
    /\ ~llm_model_list.is_none /\ Len(llm_model_list.items) = 2
    /\ hpc = "done" /\ hmodel = "m2"
    /\ hresp.code = 200 /\ hresp.body = StaleReport

\* C6 as claimed: the lists of a run's report are disjoint, hold one entry per
\* endpoint of the input list, and the two counts add up to the input length.
C6_OneOutcomePerInputEndpoint ==
    (RunReturned /\ Len(run_input.model_list) > 0) =>
        /\ hresp.code = 200
        /\ Positions(hresp.body.healthy_endpoints)
               \cap Positions(hresp.body.unhealthy_endpoints) = {}
        /\ Positions(hresp.body.healthy_endpoints)
               \cup Positions(hresp.body.unhealthy_endpoints)
           = 1..Len(run_input.model_list)
        /\ hresp.body.healthy_count + hresp.body.unhealthy_count
           = Len(run_input.model_list)

\* C6, amended: the lists of a run's report are disjoint, hold exactly one
\* entry per endpoint of the input list that the model filter selects (every
\* endpoint when no filter is given), and the two counts add up to the number
\* of selected endpoints.
C6_OneOutcomePerSelectedEndpoint ==
    (RunReturned /\ Len(run_input.model_list) > 0) =>
        /\ hresp.code = 200
        /\ Positions(hresp.body.healthy_endpoints)
               \cap Positions(hresp.body.unhealthy_endpoints) = {}
        /\ Positions(hresp.body.healthy_endpoints)
               \cup Positions(hresp.body.unhealthy_endpoints) = Selected
        /\ Len(hresp.body.healthy_endpoints)
           = Cardinality(Positions(hresp.body.healthy_endpoints))
        /\ Len(hresp.body.unhealthy_endpoints)
           = Cardinality(Positions(hresp.body.unhealthy_endpoints))
        /\ hresp.body.healthy_count = Len(hresp.body.healthy_endpoints)
        /\ hresp.body.unhealthy_count = Len(hresp.body.unhealthy_endpoints)
        /\ hresp.body.healthy_count + hresp.body.unhealthy_count = Cardinality(Selected)

\* An unfiltered run over two deployments, one answering and one timing out.
C6_Witness ==
    /\ RunReturned /\ hpath = "router" /\ run_input.filter = "None"
    /\ Len(run_input.model_list) = 2
    /\ backend[1].does = "hang" /\ backend[2].does = "succeed"
    /\ hresp.body.healthy_count = 1 /\ hresp.body.unhealthy_count = 1

\* The entries of a report list stand in the order of their endpoints in the input list.
InInputOrder(entries) ==
    \A j, k \in 1..Len(entries) : j < k => entries[j].idx < entries[k].idx

\* C7: within the healthy and the unhealthy list of a run's report the
\* entries stand in input order, whatever order the probes completed in; and a
\* backend call that finishes after its probe was declared timed out changes
\* neither the result buffer nor the answer already returned.
C7_InputOrderKept ==
    /\ [](RunReturned =>
            /\ InInputOrder(hresp.body.healthy_endpoints)
            /\ InInputOrder(hresp.body.unhealthy_endpoints))
    /\ [][\A i \in 1..MaxEndpoints :
            abandoned_call_finishes(i) =>
                hresp' = hresp /\ results' = results /\ hpc' = hpc]_vars

\* Two probes that completed in reverse input order, both unhealthy, the
\* first a timeout whose abandoned backend call has finished since.
C7_Witness ==
    /\ RunReturned /\ order = <<2, 1>>
    /\ Len(hresp.body.unhealthy_endpoints) = 2
    /\ backend[1].does = "hang" /\ abandoned = {}

\* C8: a probe whose backend call raises is listed as a failure in the
\* unhealthy list with the raised message, the request ends with a 200 answer
\* and not an exception, and every other endpoint of the run is still
\* reported: answering ones in the healthy list, the rest in the unhealthy one.
C8_FailureIsolated ==
    RunReturned =>
        /\ hresp.code = 200
        /\ \A i \in DOMAIN backend :
             LET e == run_endpoints[i]
             IN  CASE backend[i].does = "raise" ->
                        \E k \in 1..Len(hresp.body.unhealthy_endpoints) :
                            hresp.body.unhealthy_endpoints[k]
                            = [idx |-> e.idx, model |-> e.model,
                               kind |-> "failure", error |-> backend[i].error]
                   [] backend[i].does = "succeed" ->
                        \E k \in 1..Len(hresp.body.healthy_endpoints) :
                            /\ hresp.body.healthy_endpoints[k].idx = e.idx
                            /\ hresp.body.healthy_endpoints[k].kind = "success"
                   [] backend[i].does = "hang" ->
                        \E k \in 1..Len(hresp.body.unhealthy_endpoints) :
                            /\ hresp.body.unhealthy_endpoints[k].idx = e.idx
                            /\ hresp.body.unhealthy_endpoints[k].kind = "timeout"

\* The first backend raised "rate limited" and the second answered.
C8_Witness ==
    /\ RunReturned /\ Len(run_endpoints) = 2
    /\ backend[1] = [does |-> "raise", error |-> "rate limited"]
    /\ backend[2].does = "succeed"
    /\ hresp.body.healthy_count = 1

\* C10: with no router model list, an on-demand query fails with 500 "Model
\* list not initialized" and probes nothing when no command-line model is set,
\* and makes exactly one run, over the command-line model alone, whose report
\* it returns, when one is set.
C10_NoModelList ==
    (llm_model_list.is_none /\ hpc # "idle") =>
        IF user_model = "None"
        THEN /\ hpc = "done"
             /\ hresp = [code |-> 500, detail |-> "Model list not initialized"]
             /\ hruns = 0
             /\ run_endpoints = <<>> /\ results = <<>> /\ order = <<>>
        ELSE /\ hruns = 1
             /\ run_endpoints = <<[idx |-> 1, model |-> user_model]>>
             /\ hpc = "done" =>
                  /\ hresp.code = 200
                  /\ hresp.body.healthy_count + hresp.body.unhealthy_count = 1
                  /\ Len(hresp.body.healthy_endpoints)
                         + Len(hresp.body.unhealthy_endpoints) = 1
                  /\ \A k \in 1..Len(hresp.body.healthy_endpoints) :
                         hresp.body.healthy_endpoints[k].model = user_model
                  /\ \A k \in 1..Len(hresp.body.unhealthy_endpoints) :
                         hresp.body.unhealthy_endpoints[k].model = user_model

\* The command-line model was probed and found healthy, with background mode on.
C10_Witness ==
    /\ llm_model_list.is_none /\ user_model = CliModel
    /\ use_background_health_checks
    /\ hpc = "done" /\ hruns = 1
    /\ hresp.code = 200 /\ hresp.body.healthy_count = 1

\* C9: a failing cycle never ends the background scheduler: the cycle is
\* skipped with the published report left as it was, the loop stays alive, a
\* new cycle eventually starts after the failure, and a cycle that completes
\* publishes a report over the full model list.
C9_SchedulerSurvivesFailure ==
    /\ [](sched_pc \in {"sleeping", "running"})
    /\ [][scheduler_cycle_fails =>
            /\ health_check_results' = health_check_results
            /\ sched_pc' = "sleeping"]_vars
    /\ [][scheduler_publishes =>
            /\ last_cycle' = "published"
            /\ health_check_results'.healthy_count
                   + health_check_results'.unhealthy_count = Len(llm_model_list.items)]_vars
    /\ (last_cycle = "failed" /\ sched_pc = "sleeping") ~> (sched_pc = "running")

\* A cycle published two healthy endpoints, the next cycle failed, and a new
\* cycle is running with that report still published.
C9_Witness ==
    /\ last_cycle = "failed" /\ sched_pc = "running"
    /\ health_check_results.healthy_count = 2

\* The request started its one probe, under the fixed deadline.
ProbedOnceInTime ==
    /\ tprobes = 1
    /\ tcall.made
    /\ tcall.timeout = HEALTH_CHECK_TIMEOUT_SECONDS

\* "error" exactly when the run's result has an error.
StatusMatchesResult ==
    /\ tresp.body.status \in {"error", "success"}
    /\ tresp.body.status = "error" <=> "error" \in DOMAIN tresult

\* The result shown is the merged parameters and outcome without the
\* sensitive keys, and shows no value the request gave under such a key.
ResultIsRedacted ==
    LET shown == tresp.body.result
        merged == Merge(tcall.model_params, tresult)
    IN  /\ DOMAIN shown = (DOMAIN merged) \ SensitiveKeys
        /\ \A k \in DOMAIN shown : shown[k] = merged[k]
        /\ \A k \in DOMAIN shown :
             \A s \in (DOMAIN treq.litellm_params) \cap SensitiveKeys :
               shown[k] # treq.litellm_params[s]

\* C11, as stated: every request to test_model_connection invokes the probe
\* exactly once under HEALTH_CHECK_TIMEOUT_SECONDS and returns the status
\* that matches the probe's result together with the redacted snapshot.
C11_EveryRequestProbesOnce ==
    tpc = "done" =>
        /\ ProbedOnceInTime
        /\ tresp.code = 200
        /\ StatusMatchesResult
        /\ ResultIsRedacted

\* C11, amended: no request invokes the probe more than once; a request whose
\* parameter preparation does not raise invokes it exactly once, under
\* HEALTH_CHECK_TIMEOUT_SECONDS; a request in which nothing raises returns
\* status "error" exactly when the probe's result has an error and "success"
\* otherwise; and whatever payload is returned carries the redacted snapshot,
\* never the raw connection parameters.
C11_ProbesOnceUnlessPreparationRaises ==
    /\ tprobes \in {0, 1}
    /\ (tpc # "idle" /\ traised # "prepare") => ProbedOnceInTime
    /\ (tpc = "done" /\ traised = "none") =>
           /\ tresp.code = 200
           /\ StatusMatchesResult
           /\ ResultIsRedacted
    /\ (tpc = "done" /\ tresp.code = 200) => StatusMatchesResult /\ ResultIsRedacted

\* A request with an API key and no mode of its own got an error result back.
C11_Witness ==
    /\ tpc = "done"
    /\ tresp.code = 200
    /\ tresp.body.status = "error"
    /\ "api_key" \in DOMAIN treq.litellm_params
    /\ treq.mode = "None"

\* C20: whichever step of test_model_connection raises (preparing the
\* parameters, the probe call, cleaning the result), the request ends with
\* HTTP 500 "Failed to test connection": it returns no success or error
\* payload, and no other failure leaves the handler.
C20_ExceptionGives500 ==
    /\ traised # "none" => (tpc = "done" /\ tresp = ConnectionTestFailed)
    /\ tpc = "done" => tresp.code \in {200, 500}
    /\ (tpc = "done" /\ tresp.code = 200) => traised = "none"

\* Cleaning raised after the probe had returned.
C20_Witness ==
    /\ tpc = "done"
    /\ traised = "clean"
    /\ tresult \in ConnectionResults
    /\ tresp.code = 500

\* Caller p's step resumes its call after the awaited check returned.
ReturnStep(p) == rpc[p] = "probing" /\ rpc'[p] = "done" /\ rcheck'[p] = "returned"

\* Caller p's step resumes its call after the awaited check raised.
RaiseStep(p) == rpc[p] = "probing" /\ rpc'[p] = "done" /\ rcheck'[p] = "raised"

\* Caller p's step is one of _db_health_readiness_check: its entry, from the
\* handler or directly, or its resumption after the awaited check returned.
RefreshStep(p) ==
    \/ rpc[p] # "probing" /\ prisma_client /\ db_health_readiness_check(p, "readiness")
    \/ rpc[p] # "probing" /\ db_health_readiness_check(p, "db_check")
    \/ ReturnStep(p)

\* C16: the readiness record always exists with a status among unknown,
\* connected and disconnected; it is unknown at the start; only a step of
\* _db_health_readiness_check changes it; once it has left unknown it never
\* returns to unknown; and its last_updated never decreases.
C16_RecordLifecycle ==
    /\ db_health_cache.status = "unknown"
    /\ [](/\ DOMAIN db_health_cache = {"status", "last_updated"}
          /\ db_health_cache.status \in {"unknown", "connected", "disconnected"}
          /\ db_health_cache.last_updated \in 0..MaxTime)
    /\ [][/\ db_health_cache.status # "unknown" => db_health_cache'.status # "unknown"
          /\ db_health_cache'.last_updated >= db_health_cache.last_updated
          /\ db_health_cache' # db_health_cache => \E p \in Callers : RefreshStep(p)]_vars

\* A check raised when the record was already connected and had been
\* refreshed after the start; the record is still connected.
C16_Witness ==
    /\ db_health_cache.status = "connected"
    /\ db_health_cache.last_updated > 0
    /\ \E p \in Callers :
         /\ rcheck[p] = "raised"
         /\ rseen[p].rec.status = "connected"

\* The record a refresh history stands for.
RecordOf(r) ==
    IF r.done THEN [status |-> r.status, last_updated |-> r.at] ELSE InitialDbHealthCache

\* C17: under every interleaving of concurrent callers, the record in place
\* and every record a caller read carry the status and the timestamp of one
\* and the same refresh; a caller probes only if the record it read was
\* unknown or stale, and never if, when it started, a refresh had completed
\* less than the window before.
C17_ConcurrentCallers ==
    /\ db_health_cache = RecordOf(refreshed)
    /\ \A p \in Callers :
         rseen[p].read => rseen[p].rec = RecordOf(rseen[p].last)
    /\ \A p \in Callers :
         rprobes[p] = 1 =>
           /\ rseen[p].read
           /\ ~CacheIsFresh(rseen[p].rec, rseen[p].at)
           /\ rseen[p].last.done => rseen[p].at - rseen[p].last.at >= StalenessWindow

\* Two probes at once: q read the stale record before p's refresh finished
\* and is still probing, and p's refresh is in place.
C17_Witness ==
    \E p, q \in Callers :
      /\ p # q
      /\ rcheck[p] = "returned"
      /\ rprobes[q] = 1
      /\ rpc[q] = "probing"
      /\ rseen[p].rec.status = "connected"
      /\ rseen[q].rec = rseen[p].rec
      /\ db_health_cache.last_updated > rseen[q].rec.last_updated

\* Caller p's step starts a call that finds the record fresh.
CacheHitStep(p) ==
    /\ rpc[p] # "probing"
    /\ CacheIsFresh(db_health_cache, now)
    /\ \/ prisma_client /\ db_health_readiness_check(p, "readiness")
       \/ db_health_readiness_check(p, "db_check")

\* Caller p's step starts a direct call that finds the record unknown or
\* stale and no database client.
NoClientStep(p) ==
    /\ rpc[p] # "probing"
    /\ ~CacheIsFresh(db_health_cache, now)
    /\ ~prisma_client
    /\ db_health_readiness_check(p, "db_check")

\* C18: the record is rewritten only by a call whose check returns or that
\* finds no database client; a call served from the cache leaves status and
\* timestamp as they were; a call whose check raises leaves the record as it
\* was, and a call that then finds the record past the window probes.
C18_RewrittenOnlyByRefresh ==
    [][/\ \A p \in Callers : CacheHitStep(p) => db_health_cache' = db_health_cache
       /\ \A p \in Callers : RaiseStep(p) => db_health_cache' = db_health_cache
       /\ db_health_cache' # db_health_cache =>
            \E p \in Callers : ReturnStep(p) \/ NoClientStep(p)
       /\ \A p \in Callers :
            (/\ rpc[p] # "probing"
             /\ prisma_client
             /\ ~CacheIsFresh(db_health_cache, now)
             /\ db_health_readiness_check(p, "db_check")) => rprobes'[p] = 1]_vars

\* p's check raised and left a connected record that is now past the window;
\* q, who called after p had read, read that same record and is probing.
C18_Witness ==
    \E p, q \in Callers :
      /\ p # q
      /\ rcheck[p] = "raised"
      /\ rpc[p] = "done"
      /\ db_health_cache.status = "connected"
      /\ rpc[q] = "probing"
      /\ rseen[q].rec = db_health_cache
      /\ rseen[q].at > rseen[p].at

\* Caller p's step belongs to a readiness request: the handler's entry or its
\* resumption after the awaited check returned.
ReadinessRequestStep(p) ==
    \/ health_readiness(p)
    \/ rkind[p] = "readiness" /\ ReturnStep(p)

\* C19: with no database client the readiness request answers 200 with db
\* "Not connected", reads and checks nothing and leaves the record as it was;
\* and no step of a readiness request stores status disconnected.
C19_ReadinessWithoutClient ==
    /\ [](\A p \in Callers :
            (~prisma_client /\ rkind[p] = "readiness" /\ rpc[p] = "done") =>
               /\ rresp[p] = [code |-> 200, body |-> NotConnectedPayload]
               /\ rprobes[p] = 0
               /\ ~rseen[p].read)
    /\ [][\A p \in Callers :
            ReadinessRequestStep(p) =>
               /\ ~prisma_client => db_health_cache' = db_health_cache
               /\ db_health_cache' # db_health_cache =>
                    db_health_cache'.status # "disconnected"]_vars

\* With no client, a direct call has stored disconnected, and a readiness
\* request made at a later minute answered "Not connected".
C19_Witness ==
    /\ ~prisma_client
    /\ db_health_cache.status = "disconnected"
    /\ \E p \in Callers :
         /\ rkind[p] = "readiness"
         /\ rpc[p] = "done"
         /\ rresp[p].body.db = "Not connected"
         /\ now > db_health_cache.last_updated

\* C13: after a successful create_credential for name N, and before any other
\* credential request, the in-memory list holds the credential created, so
\* that get_credential(N) answers success with it.
C13_CreateReloadsMemory ==
    (cpc = "done" /\ cresp = CredentialCreated /\ ccall = NoCredentialCall) =>
        /\ \E i \in DOMAIN credential_list :
             credential_list[i].credential_name = creq.credential.credential_name
        /\ GetCredential(credential_list, creq.credential.credential_name)
             = [success |-> TRUE, credential |-> creq.credential]

\* Request r's step resumes create_mcp_server after fetch_mcp_server, which
\* met a row under the payload's id.
FetchMetRow(r) ==
    /\ mpc[r] = "fetching"
    /\ mpc'[r] # "fetching"
    /\ mreq[r].server_id \in DOMAIN mcp_table

\* C14: a create_mcp_server whose payload names a server_id that is in the
\* store when it is looked up fails with 400 "already exists. Cannot
\* overwrite.", issues no create and leaves the stored row as it was; and no
\* step at all changes the row stored under an id.
C14_NeverOverwrites ==
    /\ [](\A r \in McpRequests :
            (mreq[r].op = "create" /\ mseen[r].fetched /\ mseen[r].existed) =>
               /\ mpc[r] = "done"
               /\ mresp[r] = McpAlreadyExists
               /\ mwrites[r] = "none")
    /\ [][/\ \A r \in McpRequests : FetchMetRow(r) => mcp_table' = mcp_table
          /\ \A id \in (DOMAIN mcp_table) \cap (DOMAIN mcp_table') :
               mcp_table'[id] = mcp_table[id]]_vars

\* An administrator's create named an id stored with another url, and was
\* refused.
C14_Witness ==
    \E r \in McpRequests :
      /\ mresp[r] = McpAlreadyExists
      /\ mreq[r].user_role = "PROXY_ADMIN"
      /\ mreq[r].server_id \in DOMAIN mcp_table
      /\ mcp_table[mreq[r].server_id] # mreq[r].url

\* C15: a request whose caller has no role, or a role other than PROXY_ADMIN,
\* never gets as far as a database create or delete, and every change of the
\* stored set is the write of a PROXY_ADMIN's request.
C15_OnlyAdminChangesStore ==
    /\ [](\A r \in McpRequests :
            (mreq[r].op # "none" /\ mreq[r].user_role # "PROXY_ADMIN") =>
               /\ mwrites[r] = "none"
               /\ mpc[r] \notin {"creating", "deleting"})
    /\ [][mcp_table' # mcp_table =>
            \E r \in McpRequests :
              /\ mreq[r].op # "none"
              /\ mreq[r].user_role = "PROXY_ADMIN"
              /\ mpc[r] \in {"creating", "deleting"}
              /\ mpc'[r] = "done"]_vars

\* A caller with no role asked to delete a stored server, and a caller with
\* another role asked to create one under a fresh id: both were refused.
C15_Witness ==
    \E r, q \in McpRequests :
      /\ mreq[r].op = "delete"
      /\ mreq[r].user_role = "None"
      /\ mresp[r] = McpDeleteForbidden
      /\ mreq[r].server_id \in DOMAIN mcp_table
      /\ mreq[q].op = "create"
      /\ mreq[q].user_role = "INTERNAL_USER"
      /\ mreq[q].server_id = "None"
      /\ mresp[q] = McpCreateForbidden

\* Caller p's step enters the handler named by `kind`.
HandlerEntered(p, kind) ==
    /\ rpc[p] # "probing"
    /\ rkind'[p] = kind
    /\ \/ rpc'[p] # rpc[p]
       \/ rkind'[p] # rkind[p]
       \/ rseen'[p] # rseen[p]
       \/ rcheck'[p] # rcheck[p]

\* The step enters health_endpoint.
HealthEntered ==
    /\ hpc # "running"
    /\ hpc' # hpc \/ hmodel' # hmodel \/ hpath' # hpath

\* The step enters test_model_connection.
TestConnectionEntered ==
    /\ tpc # "probing"
    /\ tpc' # tpc \/ traised' # traised \/ tprobes' # tprobes

\* The request at the gate was approved for `route`.
Approved(route) == gate.route = route /\ gate.approved

OtherPositions(list, credential_name) ==
    {i \in DOMAIN list : list[i].credential_name # credential_name}

\* after holds exactly the entries of before at positions kept, in the order
\* they had in before.
KeepsInOrder(before, after, kept) ==
    /\ Len(after) = Cardinality(kept)
    /\ \A i \in kept : after[Cardinality({j \in kept : j <= i})] = before[i]

\* C21: right after delete_credential(N) the in-memory list holds no
\* credential named N and holds every other credential of the list the
\* request met, in the order they had there; the request answers success
\* whether or not N was in the list; and deleting N once more would leave
\* the list as it is.
C21_DeleteRemovesEveryNamed ==
    ccall.op = "delete" =>
        /\ \A i \in DOMAIN credential_list :
             credential_list[i].credential_name # ccall.credential_name
        /\ KeepsInOrder(ccall.before, credential_list,
                        OtherPositions(ccall.before, ccall.credential_name))
        /\ ccall.resp = [success |-> TRUE, message |-> "Credential deleted successfully"]
        /\ WithoutNamed(credential_list, ccall.credential_name) = credential_list

\* A delete that met two credentials of the name it removes.
C21_Witness ==
    /\ ccall.op = "delete"
    /\ ccall.resp.success
    /\ Len(ccall.before) = 2
    /\ \A i \in DOMAIN ccall.before : ccall.before[i].credential_name = ccall.credential_name
    /\ credential_list = <<>>

\* C22: right after update_credential(N, c), when the list the request met
\* held a credential named N, the in-memory list is that list with c at the
\* first position named N and every other position as it was, and the
\* request answers success; when it held none, the request answers
\* "Credential not found" and the list is that list unchanged.
C22_UpdateReplacesFirstOnly ==
    ccall.op = "update" =>
        LET before == ccall.before
            named == {i \in DOMAIN before : before[i].credential_name = ccall.credential_name}
        IN  /\ Len(credential_list) = Len(before)
            /\ IF named = {}
               THEN /\ credential_list = before
                    /\ ccall.resp = [success |-> FALSE, message |-> "Credential not found"]
               ELSE /\ \A i \in DOMAIN before :
                         credential_list[i] =
                             IF i \in named /\ \A j \in named : i <= j
                             THEN ccall.credential
                             ELSE before[i]
                    /\ ccall.resp = [success |-> TRUE,
                                     message |-> "Credential updated successfully"]

\* An update that met two credentials of its name and wrote a different one
\* over the first.
C22_Witness ==
    /\ ccall.op = "update"
    /\ ccall.resp.success
    /\ Len(ccall.before) = 2
    /\ \A i \in DOMAIN ccall.before : ccall.before[i].credential_name = ccall.credential_name
    /\ ccall.credential # ccall.before[1]
    /\ credential_list = <<ccall.credential, ccall.before[2]>>

====
